---- MODULE Spec2Model ----
(***************************************************************************)
(* State-machine model of scripts/train.py: the hyperparameter search of   *)
(* main() (optuna study, 5 trials), the per-trial driver objective(), the  *)
(* Trainer train() and the Evaluator test().                               *)
(*                                                                         *)
(* Spec      the script as run from main().                                *)
(* SpecTest  one direct call test(model, device, test_loader) of the       *)
(*           Evaluator on an arbitrary small dataset.                      *)
(* SpecFull  Spec plus the statements of objective() and main() that lie   *)
(*           behind the call of test() at line 202; used to show that      *)
(*           they are unreachable (DeadCodeUnreached).                     *)
(*                                                                         *)
(* Numbers: a learning rate is an integer in units of 1e-5; a loss is the  *)
(* negated integer log-probability; a quotient computed by Python's true   *)
(* division is kept as the record [num, den].                              *)
(***************************************************************************)
EXTENDS Integers, Sequences, FiniteSets, TLC

\* ---------------------------------------------------------------- bounds
MaxTrainLen == 4
MaxBatchSize == 2
MaxLogInterval == 3
MaxTestLen == 3
MaxTestBatch == 3

\* ---------------------------------------------------- program constants
NTrials == 5
LrLow == 1
LrHigh == 100
EpochsLow == 1
EpochsHigh == 10
TestParams == 3
TestCallArgs == 4

\* class labels and the log-probabilities a model output may hold
Classes == {1, 2}
LogProbs == {-2, -1}

VARIABLES
    args,           \* parsed command line: dry_run, save_model, log_interval, batch_size
    trainLen,       \* len(train_loader.dataset)
    pc,             \* position of the process
    caller,         \* who called test(): "objective" or "harness"
    trialNo,        \* index of the trial the study is running (0-based)
    trialsStarted,  \* number of objective() calls made by study.optimize
    cands,          \* the candidates handed to objective(), in order
    epoch,          \* loop variable of objective()'s epoch loop
    batch_idx,      \* loop variable of train()
    modelId,        \* identity of the current Model/Optimizer/Scheduler triple (0: none)
    nextId,         \* next fresh identity
    params,         \* parameter state of the current model: [id, steps]
    decays,         \* scheduler.step() calls applied to the current optimizer
    events,         \* history: seed / new / train / test / sched events
    processed,      \* batch indices processed by the current train() call
    progress,       \* progress records printed by the current train() call
    logged,         \* batch indices whose loss went to wandb.log in this call
    sessionsOpened, \* wandb.init calls
    closeCalls,     \* wandb.finish calls
    sessionOpen,    \* a wandb run is active
    results,        \* trial results kept by the study
    reported,       \* study.best_params was printed
    checkpoint,     \* content of mnist_cnn.pt (NoParams while the file is absent)
    err,            \* first exception raised ("none" if none)
    exitStatus,     \* "running", "ok" (exit 0) or "error" (non-zero exit)
    dataset,        \* test_loader.dataset: sequence of [out, target]
    test_bs,        \* batch size of test_loader
    tidx,           \* number of test batches consumed
    test_loss,      \* accumulator of test()
    correct,        \* accumulator of test()
    seen,           \* history: sum of the sizes of the batches test() consumed
    ret,            \* value returned by the last test() call ("none" before)
    testLog,        \* record sent to wandb.log by test() ("none" before)
    evals           \* history: [trial, epoch, loss] of every finished test() call

vars == <<args, trainLen, pc, caller, trialNo, trialsStarted, cands, epoch,
          batch_idx, modelId, nextId, params, decays, events, processed,
          progress, logged, sessionsOpened, closeCalls, sessionOpen, results,
          reported, checkpoint, err, exitStatus, dataset, test_bs, tidx,
          test_loss, correct, seen, ret, testLog, evals>>

inputVars == <<args, trainLen, dataset, test_bs>>
studyVars == <<trialNo, trialsStarted, cands, results, reported>>
tripleVars == <<modelId, nextId, decays>>
trainVars == <<batch_idx, processed, progress, logged>>
sinkVars == <<sessionsOpened, closeCalls, sessionOpen>>
evalVars == <<tidx, test_loss, correct, seen, ret, testLog, evals>>
exitVars == <<err, exitStatus>>

\* ------------------------------------------------------------- helpers
Min(a, b) == IF a < b THEN a ELSE b

RECURSIVE SumSeq(_)
SumSeq(s) == IF s = <<>> THEN 0 ELSE Head(s) + SumSeq(Tail(s))

\* drop_last=True: the trailing partial batch is discarded
RECURSIVE LoaderBatchesDropLast(_, _)
LoaderBatchesDropLast(data, bs) ==
    IF Len(data) < bs THEN <<>>
    ELSE <<SubSeq(data, 1, bs)>> \o LoaderBatchesDropLast(SubSeq(data, bs + 1, Len(data)), bs)

\* torch.utils.data.DataLoader(dataset, batch_size=bs): consecutive batches of
\* bs examples, the last one holding the remainder (drop_last defaults to False)
RECURSIVE LoaderBatches(_, _)
LoaderBatches(data, bs) ==
    IF data = <<>> THEN <<>>
    ELSE <<SubSeq(data, 1, Min(bs, Len(data)))>>
             \o LoaderBatches(SubSeq(data, Min(bs, Len(data)) + 1, Len(data)), bs)

\* the training set only matters through its length: examples are their indices
TrainData == [i \in 1..trainLen |-> i]
TrainBatches == LoaderBatches(TrainData, args.batch_size)
TestBatches == LoaderBatches(dataset, test_bs)

\* output.argmax(dim=1): index of the maximum log-probability, lowest index on ties
ArgMax(out) ==
    CHOOSE c \in DOMAIN out :
        /\ \A d \in DOMAIN out : out[d] <= out[c]
        /\ \A d \in DOMAIN out : (out[d] = out[c]) => c <= d

\* F.nll_loss(output, target, reduction="sum"): sum of -output[i][target[i]]
BatchNll(batch) == SumSeq([i \in 1..Len(batch) |-> 0 - batch[i].out[batch[i].target]])

\* pred.eq(target) without view_as: (B,1) against (B) broadcasts to B x B
BatchCorrectBroadcast(batch) ==
    Cardinality({p \in (1..Len(batch)) \X (1..Len(batch)) :
                    ArgMax(batch[p[1]].out) = batch[p[2]].target})

\* pred.eq(target.view_as(pred)).sum(): element-wise matches
BatchCorrect(batch) ==
    Cardinality({i \in 1..Len(batch) : ArgMax(batch[i].out) = batch[i].target})

ShouldLogOffByOne(idx, interval) == (idx + 1) % interval = 0

\* line 68: batch_idx % args.log_interval == 0
ShouldLog(idx, interval) == idx % interval = 0

DryRunBreakMissing(dry_run, logs) == FALSE

\* lines 78-79: the break sits inside the logging branch
DryRunBreak(dry_run, logs) == logs /\ dry_run

\* a handler that records the failed trial and goes on with the next one
CaughtError(t) == [pc |-> "optimize", trialNo |-> t + 1, exitStatus |-> "running"]

\* no try/except in objective() or main(), and study.optimize is called without
\* catch=: the exception leaves main() and the interpreter exits non-zero
UncaughtError(t) == [pc |-> "failed", trialNo |-> t, exitStatus |-> "error"]

Raise(e) ==
    /\ err' = IF err = "none" THEN e ELSE err
    /\ pc' = UncaughtError(trialNo).pc
    /\ trialNo' = UncaughtError(trialNo).trialNo
    /\ exitStatus' = UncaughtError(trialNo).exitStatus

Event(op) == [op |-> op, trial |-> trialNo, id |-> modelId, epoch |-> epoch]

\* ------------------------------------------------------------ inputs
Examples == [out : [Classes -> LogProbs], target : Classes]

Datasets(maxLen) == UNION {[1..n -> Examples] : n \in 1..maxLen}

\* the flags the model varies; --log-interval and --batch-size are taken >= 1
\* (0 makes line 68 or the DataLoader raise before any batch is logged)
ArgSets ==
    [dry_run : BOOLEAN, save_model : BOOLEAN,
     log_interval : 1..MaxLogInterval, batch_size : 1..MaxBatchSize]

LrSamples == {LrLow, (LrLow + LrHigh) \div 2, LrHigh}

SampleDataset == [i \in 1..2 |-> [out |-> [c \in Classes |-> 0 - c], target |-> i]]

\* no model: the value of params before Net() and of an unwritten checkpoint
NoParams == [id |-> 0, steps |-> 0]

Idle ==
    /\ trialNo = 0 /\ trialsStarted = 0 /\ cands = <<>>
    /\ epoch = 0 /\ batch_idx = 0
    /\ modelId = 0 /\ nextId = 1 /\ params = NoParams /\ decays = 0
    /\ events = <<>> /\ processed = <<>> /\ progress = {} /\ logged = {}
    /\ sessionsOpened = 0 /\ closeCalls = 0 /\ sessionOpen = FALSE
    /\ results = <<>> /\ reported = FALSE /\ checkpoint = NoParams
    /\ err = "none" /\ exitStatus = "running"
    /\ tidx = 0 /\ test_loss = 0 /\ correct = 0 /\ seen = 0
    /\ ret = "none" /\ testLog = "none" /\ evals = <<>>

Init ==
    /\ args \in ArgSets
    /\ trainLen \in 1..MaxTrainLen
    /\ dataset = SampleDataset
    /\ test_bs = 1
    /\ pc = "main"
    /\ caller = "objective"
    /\ Idle

InitTest ==
    /\ args = [dry_run |-> FALSE, save_model |-> FALSE, log_interval |-> 1, batch_size |-> 1]
    /\ trainLen = 1
    /\ dataset \in Datasets(MaxTestLen)
    /\ test_bs \in 1..MaxTestBatch
    /\ pc = "harness"
    /\ caller = "harness"
    /\ Idle

\* ------------------------------------------------------------ main()
\* line 214
CreateStudy ==
    /\ pc = "main"
    /\ pc' = "optimize"
    /\ UNCHANGED <<inputVars, caller, studyVars, epoch, tripleVars, params, events,
                   trainVars, sinkVars, checkpoint, exitVars, evalVars>>

\* ------------------------------------------------------- objective()
\* the trial starts without torch.manual_seed (the seed set once, outside objective)
ObjectiveSuggestUnseeded ==
    /\ pc = "optimize"
    /\ trialNo < NTrials
    /\ \E l \in LrSamples, e \in EpochsLow..EpochsHigh :
          cands' = Append(cands, [lr |-> l, epochs |-> e])
    /\ trialsStarted' = trialsStarted + 1
    /\ modelId' = 0
    /\ epoch' = 0
    /\ pc' = "wandb_init"
    /\ UNCHANGED <<inputVars, caller, trialNo, results, reported, nextId, decays, params,
                   events, trainVars, sinkVars, checkpoint, exitVars, evalVars>>

\* line 215 starts the next trial; lines 142-168: parse the command line, seed
\* the generator, take the trial's suggestions
ObjectiveSeedAndSuggest ==
    /\ pc = "optimize"
    /\ trialNo < NTrials
    /\ \E l \in LrSamples, e \in EpochsLow..EpochsHigh :
          cands' = Append(cands, [lr |-> l, epochs |-> e])
    /\ trialsStarted' = trialsStarted + 1
    /\ modelId' = 0
    /\ epoch' = 0
    /\ events' = Append(events, [op |-> "seed", trial |-> trialNo, id |-> 0, epoch |-> 0])
    /\ pc' = "wandb_init"
    /\ UNCHANGED <<inputVars, caller, trialNo, results, reported, nextId, decays, params,
                   trainVars, sinkVars, checkpoint, exitVars, evalVars>>

\* lines 171-181
ObjectiveWandbInit ==
    /\ pc = "wandb_init"
    /\ sessionsOpened' = sessionsOpened + 1
    /\ sessionOpen' = TRUE
    /\ pc' = "construct"
    /\ UNCHANGED <<inputVars, caller, studyVars, epoch, tripleVars, params, events,
                   trainVars, closeCalls, checkpoint, exitVars, evalVars>>

\* lines 183-200: loaders, Net(), Adam, StepLR, first test of the epoch loop
ObjectiveConstruct ==
    /\ pc = "construct"
    /\ modelId' = nextId
    /\ nextId' = nextId + 1
    /\ params' = [id |-> nextId, steps |-> 0]
    /\ decays' = 0
    /\ epoch' = 0
    /\ events' = Append(events, [op |-> "new", trial |-> trialNo, id |-> nextId, epoch |-> 0])
    /\ pc' = IF 0 < cands[Len(cands)].epochs THEN "train_call" ELSE "save"
    /\ UNCHANGED <<inputVars, caller, studyVars, trainVars, sinkVars, checkpoint,
                   exitVars, evalVars>>

\* ------------------------------------------------------------ train()
\* line 201 and lines 59-60
TrainEnter ==
    /\ pc = "train_call"
    /\ batch_idx' = 0
    /\ processed' = <<>>
    /\ progress' = {}
    /\ logged' = {}
    /\ events' = Append(events, Event("train"))
    /\ pc' = IF TrainBatches = <<>> THEN "test_call" ELSE "train_loop"
    /\ UNCHANGED <<inputVars, caller, studyVars, epoch, tripleVars, params, sinkVars,
                   checkpoint, exitVars, evalVars>>

\* lines 60-82: one iteration of the batch loop
TrainBatch ==
    /\ pc = "train_loop"
    /\ batch_idx < Len(TrainBatches)
    /\ LET logs == ShouldLog(batch_idx, args.log_interval)
           brk == DryRunBreak(args.dry_run, logs)
           last == batch_idx + 1 = Len(TrainBatches)
       IN  /\ params' = [params EXCEPT !.steps = @ + 1]
           /\ processed' = Append(processed, batch_idx)
           /\ progress' =
                IF logs
                THEN progress \cup {[epoch |-> epoch,
                                     batch_idx |-> batch_idx,
                                     seen |-> batch_idx * Len(TrainBatches[batch_idx + 1]),
                                     total |-> trainLen,
                                     pct |-> [num |-> 100 * batch_idx,
                                              den |-> Len(TrainBatches)]]}
                ELSE progress
           /\ logged' = IF logs /\ ~brk THEN logged \cup {batch_idx} ELSE logged
           /\ batch_idx' = IF brk \/ last THEN batch_idx ELSE batch_idx + 1
           /\ pc' = IF brk \/ last THEN "test_call" ELSE "train_loop"
    /\ UNCHANGED <<inputVars, caller, studyVars, epoch, tripleVars, events, sinkVars,
                   checkpoint, exitVars, evalVars>>

\* a call test(a1, ..., an) binds n positional arguments to the TestParams
\* parameters of def test (line 85); any other count is a TypeError
CallTest(nargs) ==
    IF nargs = TestParams
    THEN /\ pc' = "test_enter"
         /\ UNCHANGED <<trialNo, exitVars>>
    ELSE Raise("TypeError")

\* line 202: test(model, device, test_loader, epoch)
ObjectiveCallTest ==
    /\ pc = "test_call"
    /\ CallTest(TestCallArgs)
    /\ UNCHANGED <<inputVars, caller, trialsStarted, cands, results, reported, epoch,
                   tripleVars, params, events, trainVars, sinkVars, checkpoint, evalVars>>

\* an external library call of the trial fails (wandb.init, dataset download,
\* Net(), forward/backward pass, wandb.log): the exception is raised in objective()
LibraryError ==
    /\ pc \in {"wandb_init", "construct", "train_loop", "test_loop"}
    /\ caller = "objective"
    /\ Raise("LibraryError")
    /\ UNCHANGED <<inputVars, caller, trialsStarted, cands, results, reported, epoch,
                   tripleVars, params, events, trainVars, sinkVars, checkpoint, evalVars>>

\* ------------------------------------------------------------- test()
\* a direct call test(model, device, test_loader)
HarnessCallTest ==
    /\ pc = "harness"
    /\ CallTest(3)
    /\ UNCHANGED <<inputVars, caller, trialsStarted, cands, results, reported, epoch,
                   tripleVars, params, events, trainVars, sinkVars, checkpoint, evalVars>>

\* lines 102-106
TestEnter ==
    /\ pc = "test_enter"
    /\ test_loss' = 0
    /\ correct' = 0
    /\ seen' = 0
    /\ tidx' = 0
    /\ pc' = "test_loop"
    /\ UNCHANGED <<inputVars, caller, studyVars, epoch, tripleVars, params, events,
                   trainVars, sinkVars, checkpoint, exitVars, ret, testLog, evals>>

\* lines 107-113: one iteration of the batch loop
TestBatch ==
    /\ pc = "test_loop"
    /\ tidx < Len(TestBatches)
    /\ LET batch == TestBatches[tidx + 1]
       IN  /\ test_loss' = test_loss + BatchNll(batch)
           /\ correct' = correct + BatchCorrect(batch)
           /\ seen' = seen + Len(batch)
    /\ tidx' = tidx + 1
    /\ UNCHANGED <<inputVars, pc, caller, studyVars, epoch, tripleVars, params, events,
                   trainVars, sinkVars, checkpoint, exitVars, ret, testLog, evals>>

\* lines 115-126: mean loss, wandb.log, print, return
TestFinish ==
    /\ pc = "test_loop"
    /\ tidx = Len(TestBatches)
    /\ Len(dataset) > 0
    /\ LET mean == [num |-> test_loss, den |-> Len(dataset)]
       IN  /\ ret' = mean
           /\ testLog' = [acc |-> [num |-> 100 * correct, den |-> Len(dataset)],
                          loss |-> mean]
           /\ events' = Append(events, Event("test"))
           /\ evals' = Append(evals, [trial |-> trialNo, epoch |-> epoch, loss |-> mean])
    /\ pc' = IF caller = "harness" THEN "test_done" ELSE "sched"
    /\ UNCHANGED <<inputVars, caller, studyVars, epoch, tripleVars, params, trainVars,
                   sinkVars, checkpoint, exitVars, tidx, test_loss, correct, seen>>

\* ------------------------------- objective() and main() after line 202
\* line 203 and the loop test of line 200
SchedulerStep ==
    /\ pc = "sched"
    /\ decays' = decays + 1
    /\ events' = Append(events, Event("sched"))
    /\ epoch' = epoch + 1
    /\ pc' = IF epoch + 1 < cands[Len(cands)].epochs THEN "train_call" ELSE "save"
    /\ UNCHANGED <<inputVars, caller, studyVars, modelId, nextId, params, trainVars,
                   sinkVars, checkpoint, exitVars, evalVars>>

\* lines 205-208, and the study recording the trial's value
ObjectiveReturn ==
    /\ pc = "save"
    /\ checkpoint' = IF args.save_model THEN params ELSE checkpoint
    /\ results' = Append(results, [cand |-> cands[Len(cands)], loss |-> ret])
    /\ trialNo' = trialNo + 1
    /\ pc' = "optimize"
    /\ UNCHANGED <<inputVars, caller, trialsStarted, cands, reported, epoch, tripleVars,
                   params, events, trainVars, sinkVars, exitVars, evalVars>>

\* line 216
ReportBest ==
    /\ pc = "optimize"
    /\ trialNo = NTrials
    /\ reported' = TRUE
    /\ pc' = "artifact"
    /\ UNCHANGED <<inputVars, caller, trialNo, trialsStarted, cands, results, epoch,
                   tripleVars, params, events, trainVars, sinkVars, checkpoint,
                   exitVars, evalVars>>

\* lines 218-223: log the code artifact, wandb.finish(), normal exit
FinishRun ==
    /\ pc = "artifact"
    /\ closeCalls' = closeCalls + 1
    /\ sessionOpen' = FALSE
    /\ exitStatus' = "ok"
    /\ pc' = "exited"
    /\ UNCHANGED <<inputVars, caller, studyVars, epoch, tripleVars, params, events,
                   trainVars, sessionsOpened, checkpoint, err, evalVars>>

\* ------------------------------------------------------ specifications
Next ==
    \/ CreateStudy
    \/ ObjectiveSeedAndSuggest
    \/ ObjectiveWandbInit
    \/ ObjectiveConstruct
    \/ TrainEnter
    \/ TrainBatch
    \/ ObjectiveCallTest
    \/ LibraryError

Spec == Init /\ [][Next]_vars

NextTest ==
    \/ HarnessCallTest
    \/ TestEnter
    \/ TestBatch
    \/ TestFinish

SpecTest == InitTest /\ [][NextTest]_vars

NextFull ==
    \/ Next
    \/ TestEnter
    \/ TestBatch
    \/ TestFinish
    \/ SchedulerStep
    \/ ObjectiveReturn
    \/ ReportBest
    \/ FinishRun

SpecFull == Init /\ [][NextFull]_vars

\* the statements behind the call of line 202 are never executed
DeadCodeUnreached ==
    pc \notin {"test_enter", "test_loop", "sched", "save", "artifact", "exited"}

\* ---------------------------------------------------------------- claims
Terminated == pc \in {"failed", "exited"}

\* trials whose objective() call has ended without a library failure
EndedTrials ==
    {t \in 0..(trialsStarted - 1) :
        t < trialNo \/ (t = trialNo /\ pc = "failed" /\ err # "LibraryError")}

IsEpochEvent(ev) == ev.op \in {"train", "test", "sched"}

\* the train / test / sched events of trial t, as <<op, epoch>>, in order
EpochOps(t) ==
    LET OfTrial(ev) == ev.trial = t /\ IsEpochEvent(ev)
        sel == SelectSeq(events, OfTrial)
    IN  [i \in 1..Len(sel) |-> <<sel[i].op, sel[i].epoch>>]

ExpectedOps(E) ==
    [i \in 1..(3 * E) |->
        <<(<<"train", "test", "sched">>)[((i - 1) % 3) + 1], (i - 1) \div 3>>]

\* C1: a run of 5 trials in which no library call fails terminates with exactly
\* 5 trial results, and every candidate handed to objective() has its learning
\* rate in (0, 0.001] and its epoch count in 1..10.
C1_FiveResults ==
    /\ \A i \in 1..Len(cands) :
          /\ 0 < cands[i].lr /\ cands[i].lr <= 100
          /\ cands[i].epochs \in 1..10
    /\ (Terminated /\ err # "LibraryError") => Len(results) = NTrials

\* C2: within one objective() call with E epochs the events are train(e),
\* test(e), scheduler step, for e = 0 .. E-1 in turn, and the value returned to
\* the study is the loss of the test() call of epoch E-1.
C2_EpochOrder ==
    \A t \in EndedTrials :
        /\ EpochOps(t) = ExpectedOps(cands[t + 1].epochs)
        /\ t + 1 <= Len(results)
        /\ \E i \in 1..Len(evals) :
              /\ evals[i].trial = t
              /\ evals[i].epoch = cands[t + 1].epochs - 1
              /\ results[t + 1].loss = evals[i].loss

\* C3: an error raised inside a trial is not caught: the process is in its
\* failed state with a non-zero exit, no later trial was started, the best
\* parameters were not printed; a terminated run has either all its trial
\* results or an error.
C3_ErrorAborts ==
    /\ err # "none" =>
          /\ pc = "failed"
          /\ exitStatus = "error"
          /\ ~reported
          /\ trialsStarted = trialNo + 1
          /\ Len(results) = trialNo
    /\ Terminated => (err # "none" \/ Len(results) = NTrials)

C3_Witness ==
    /\ err = "LibraryError"
    /\ pc = "failed"
    /\ Len(processed) >= 1

\* C4: a finished test() call has consumed every batch of the loader once: the
\* sizes of the batches it consumed add up to len(dataset), and it returns the
\* summed loss of all examples divided by len(dataset).
C4_EvaluatorCoversDataset ==
    /\ pc = "test_loop" => seen = SumSeq([i \in 1..tidx |-> Len(TestBatches[i])])
    /\ pc = "test_done" =>
          /\ tidx = Len(TestBatches)
          /\ seen = Len(dataset)
          /\ ret = [num |-> BatchNll(dataset), den |-> Len(dataset)]

C4_Witness ==
    /\ pc = "test_done"
    /\ Len(TestBatches) >= 2
    /\ Len(dataset) % test_bs # 0

\* C5: every trial that constructs a model creates exactly one triple, with a
\* fresh identity; every train / test / scheduler event acts on the triple its
\* own trial created; the seed is applied in a trial before its model is made.
C5_TripleOwnedByTrial ==
    LET News == {i \in 1..Len(events) : events[i].op = "new"}
    IN  /\ \A i, j \in News :
              (events[i].trial = events[j].trial \/ events[i].id = events[j].id) => i = j
        /\ \A i \in 1..Len(events) :
              IsEpochEvent(events[i]) =>
                  \E j \in News :
                      /\ j < i
                      /\ events[j].trial = events[i].trial
                      /\ events[j].id = events[i].id
        /\ \A j \in News :
              \E k \in 1..(j - 1) :
                  events[k].op = "seed" /\ events[k].trial = events[j].trial
        /\ modelId # 0 => \E j \in News : events[j].trial = trialNo /\ events[j].id = modelId

C5_Witness ==
    /\ modelId # 0
    /\ params = [id |-> modelId, steps |-> 2]
    /\ \E i \in 1..Len(events) : events[i].op = "train" /\ events[i].id = modelId

\* C6: in dry-run mode a train() call that has returned processed exactly one
\* batch (one optimizer step) and sent at most one training loss to wandb.log,
\* whatever the log interval and the number of batches.
C6_DryRunOneBatch ==
    /\ (args.dry_run /\ pc \in {"train_loop", "test_call"}) =>
          /\ Len(processed) <= 1
          /\ Cardinality(logged) <= 1
    /\ (args.dry_run /\ pc = "test_call") =>
          /\ processed = <<0>>
          /\ params.steps = epoch + 1

C6_Witness ==
    /\ args.dry_run
    /\ pc = "test_call"
    /\ Len(TrainBatches) > 1
    /\ args.log_interval > 1

ProgressIdx == {r.batch_idx : r \in progress}

ProcessedIdx == {processed[i] : i \in 1..Len(processed)}

\* C7 as stated: when train() returns, a progress record was printed for exactly
\* the batches whose index is a multiple of the log interval, and the training
\* loss was sent to wandb.log for exactly the same batches.
C7_Original ==
    pc = "test_call" =>
        /\ ProgressIdx = {i \in 0..(Len(TrainBatches) - 1) : i % args.log_interval = 0}
        /\ logged = ProgressIdx

\* C7 (amended): during a train() call a progress record is printed for exactly
\* the processed batches whose index is a multiple of the log interval; without
\* dry-run every batch is processed and the training loss goes to wandb.log for
\* exactly the batches that printed a record; with dry-run only batch 0 is
\* processed, it prints a record and no loss is sent.
C7_Cadence ==
    /\ pc \in {"train_loop", "test_call"} =>
          /\ ProgressIdx = {i \in ProcessedIdx : i % args.log_interval = 0}
          /\ logged = IF args.dry_run THEN {} ELSE ProgressIdx
    /\ pc = "test_call" =>
          ProcessedIdx = IF args.dry_run THEN {0} ELSE 0..(Len(TrainBatches) - 1)

C7_Witness ==
    /\ ~args.dry_run
    /\ pc = "test_call"
    /\ Cardinality(logged) >= 2
    /\ Len(processed) > Cardinality(logged)

\* C8: one wandb session is opened per trial and every opened session has been
\* closed by an explicit wandb.finish() when the process has exited.
C8_SessionsClosed ==
    (Terminated /\ err # "LibraryError") =>
        /\ sessionsOpened = trialsStarted
        /\ closeCalls = sessionsOpened
        /\ ~sessionOpen

\* C9: mnist_cnn.pt is never written without --save-model, and after a run with
\* --save-model in which no library call failed it holds the parameters of the
\* last trial's model after that trial's final epoch.
C9_Checkpoint ==
    /\ ~args.save_model => checkpoint = NoParams
    /\ (Terminated /\ err # "LibraryError" /\ args.save_model) =>
          /\ checkpoint # NoParams
          /\ checkpoint = params

\* C10: after a test() call on a non-empty dataset the number of correct
\* predictions lies in 0..len(dataset), and the accuracy sent to wandb.log,
\* 100 * correct / len(dataset), lies in [0, 100].
C10_AccuracyRange ==
    /\ pc \in {"test_loop", "test_done"} => (0 <= correct /\ correct <= seen)
    /\ pc = "test_done" =>
          /\ correct <= Len(dataset)
          /\ testLog.acc = [num |-> 100 * correct, den |-> Len(dataset)]
          /\ 0 <= testLog.acc.num
          /\ testLog.acc.num <= 100 * testLog.acc.den

C10_Witness ==
    /\ pc = "test_done"
    /\ 0 < correct
    /\ correct < Len(dataset)
    /\ Len(TestBatches) >= 2

====
